---- MODULE Spec2Model ----
(***************************************************************************)
(* A model of the mod bisector: source/app/function/binary_search_mod.py   *)
(* driven by source/app/function_runner.py.                                *)
(*                                                                         *)
(* A unit is a mod folder, identified by its position in discovery order.  *)
(* A path is a pair <<u, k>>: the folder of unit u under its original name *)
(* carrying k copies of the "DISABLED " prefix.  disk[u] is the number of  *)
(* prefixes the folder of u carries on disk right now, so a path <<u, k>>  *)
(* exists exactly when disk[u] = k.                                        *)
(***************************************************************************)
EXTENDS Integers, Sequences, FiniteSets, TLC

\* ------------------------------------------------------------------ bounds
MaxUnits == 3      \* mod folders under the start path
MaxRuns  == 2      \* calls of run_bisection in one behaviour
MaxFail  == 1      \* failing os.rename calls in one behaviour
MaxCrash == 1      \* times the process is killed in one behaviour
MaxConvUnits == 5  \* mod folders under the start path in SpecConv
MaxPrefix == 2     \* "DISABLED " prefixes a folder name carries in SpecActivator
MaxCalls == 3      \* calls of disable_folder / enable_folder in SpecActivator

\* --------------------------------------------------------------- constants
\* A file: whether it exists, the list it holds, and whether that list was
\* written to its end.
NoFile == [exists |-> FALSE, data |-> <<>>, whole |-> TRUE]

FileOf(data) == [exists |-> TRUE, data |-> data, whole |-> TRUE]

\* A file just opened with mode "w": it exists and its content is not written yet.
Truncated == [exists |-> TRUE, data |-> <<>>, whole |-> FALSE]

NoPath == <<0, 0>>     \* no path (nothing reported, no rename in progress)
NoRename == [src |-> NoPath, dst |-> NoPath, ctx |-> "none"]

\* STATE_FILE is set by every caller before run_bisection is called.
STATE_FILE == TRUE

VARIABLES
    \* the filesystem
    disk,                      \* unit -> number of "DISABLED " prefixes of its folder
    stateFile,                 \* the file STATE_FILE
    tmpFile,                   \* the file STATE_FILE + ".tmp"
    \* module globals of binary_search_mod
    program_disabled,          \* list of disabled-on-disk paths
    STOP_EVENT,                \* TRUE when the event is set
    \* the call in progress
    call,                      \* "none" | "run" | "recover"
    pc,                        \* position inside the call
    src_ini,                   \* TRUE when run_bisection's local src_ini is bound
    candidates,                \* run_bisection: candidates
    original_disabled_on_disk, \* run_bisection: original_disabled_on_disk
    current,                   \* run_bisection: current
    phase,                     \* which set_active_group call of the iteration runs
    sagIdx,                    \* set_active_group: index of the candidate in hand
    rn,                        \* _rename_with_retry: src, dst and the caller
    exc,                       \* an exception raised inside the try block is in flight
    recData,                   \* recover_from_state: data
    recIdx,                    \* recover_from_state: index of the entry in hand
    restored,                  \* recover_from_state: restored
    \* what the caller sees
    raised,                    \* exception the last call ended with
    terminal,                  \* terminal of the last run
    reported,                  \* path given to RESULT_FN / printed
    lastRestored,              \* value the last recover_from_state returned
    \* the environment, and what the properties need to remember
    culprit,                   \* the unit the oracle's fault really is in
    honest,                    \* every answer so far was "y" iff culprit in first
    iters,                     \* fault-reproduction questions asked in this run
    runFail,                   \* an os.rename failed during this run's activation steps
    recFail,                   \* an os.rename failed during the current recovery
    recRenamed,                \* units the current recovery renamed
    crashPd,                   \* program_disabled at the moment of the kill
    postCrash,                 \* "none" | "crashed" | "recovering" | "recovered"
    resp,                      \* the last answer at the rename-failure prompt of the
                               \* _rename_with_retry call in hand or just ended
    skipped,                   \* units whose rename the operator skipped in the
                               \* set_active_group call in hand or just ended
    answer,                    \* the answer just given at the fault-reproduction
                               \* prompt, until the next step of the run
    actLog,                    \* SpecActivator: the path in hand and the disk after
                               \* each call of disable_folder / enable_folder
    fails, runs, crashes       \* counters that bound the behaviour

fsVars   == <<disk, stateFile, tmpFile>>
globVars == <<program_disabled, STOP_EVENT>>
runVars  == <<src_ini, candidates, original_disabled_on_disk, current, phase, sagIdx, exc>>
recVars  == <<recData, recIdx, restored>>
outVars  == <<raised, terminal, reported, lastRestored>>
envVars  == <<culprit, honest, iters, runFail, recFail, recRenamed, crashPd, postCrash>>
askVars  == <<resp, skipped, answer>>
cntVars  == <<fails, runs, crashes>>
vars == <<fsVars, globVars, call, pc, rn, runVars, recVars, outVars, envVars,
         askVars, actLog, cntVars>>

\* ------------------------------------------------------------ pure helpers
Range(s) == {s[i] : i \in DOMAIN s}

Units == DOMAIN disk

\* list.remove(x): removes the first occurrence
RemoveFirst(s, x) ==
    IF x \notin Range(s) THEN s
    ELSE LET i == CHOOSE j \in DOMAIN s : s[j] = x /\ \A k \in 1..(j - 1) : s[k] # x
         IN  SubSeq(s, 1, i - 1) \o SubSeq(s, i + 1, Len(s))

OrigPath(u) == <<u, 0>>

_is_disabled_name(p) == p[2] >= 1

\* A disabled name that carries the prefix twice.
DoublePrefix(p) == <<p[1], p[2] + 2>>

_disabled_name_for(p) == <<p[1], p[2] + 1>>

\* enable_folder's new_path: the name with one prefix stripped
EnabledNameFor(p) == <<p[1], p[2] - 1>>

\* os.path.exists
Exists(p) == p[1] \in Units /\ disk[p[1]] = p[2]

\* _load_state: an absent file loads as the empty list
_load_state(f) == IF f.exists THEN f.data ELSE <<>>

\* ------------------------------------------------------------------- split
\* A split that peels one candidate off at a time.
MidOne(n) == 1

\* A split that leaves first empty.
MidZero(n) == 0

\* mid = len(current) // 2 (line 309)
Mid(n) == n \div 2

First == SubSeq(current, 1, Mid(Len(current)))

Second == SubSeq(current, Mid(Len(current)) + 1, Len(current))

\* A set_active_group(second) that is given first.
GroupAlwaysFirst == First

Group == IF phase = "first" THEN First ELSE Second

RECURSIVE CeilLog2(_)
CeilLog2(n) == IF n <= 1 THEN 0 ELSE 1 + CeilLog2((n + 1) \div 2)

RECURSIVE Pow2(_)
Pow2(k) == IF k <= 0 THEN 1 ELSE 2 * Pow2(k - 1)

\* -------------------------------------------------------------------- Init
\* What is in memory when a process starts, and the files of a first start.
InitProcess ==
    /\ stateFile = NoFile
    /\ tmpFile = NoFile
    /\ program_disabled = <<>>
    /\ STOP_EVENT = FALSE
    /\ call = "none"
    /\ pc = "idle"
    /\ rn = NoRename
    /\ src_ini = FALSE
    /\ candidates = <<>>
    /\ original_disabled_on_disk = {}
    /\ current = <<>>
    /\ phase = "none"
    /\ sagIdx = 0
    /\ exc = FALSE
    /\ recData = <<>>
    /\ recIdx = 0
    /\ restored = 0
    /\ raised = "none"
    /\ terminal = "none"
    /\ reported = NoPath
    /\ lastRestored = 0
    /\ culprit = 0
    /\ honest = FALSE
    /\ iters = 0
    /\ runFail = FALSE
    /\ recFail = FALSE
    /\ recRenamed = {}
    /\ crashPd = <<>>
    /\ postCrash = "none"
    /\ resp = "none"
    /\ skipped = {}
    /\ answer = "none"
    /\ crashes = 0

\* Any folder may carry the prefix before the first run.
Init ==
    /\ disk \in UNION {[1..n -> {0, 1}] : n \in 1..MaxUnits}
    /\ fails = 0
    /\ runs = 0
    /\ actLog = <<>>
    /\ InitProcess

\* ------------------------------------------------- starting run_bisection
\* function_runner.run_binary_search_gui.target sets the module globals (a new
\* Event per run, ui/layout.py:159) and calls run_bisection; main does the same
\* in a fresh process.  program_disabled is not touched by either.
StartRun ==
    /\ pc = "idle"
    /\ runs < MaxRuns
    /\ runs' = runs + 1
    /\ call' = "run"
    /\ pc' = "start"
    /\ STOP_EVENT' = FALSE
    /\ src_ini' = FALSE
    /\ candidates' = <<>>
    /\ original_disabled_on_disk' = {}
    /\ current' = <<>>
    /\ phase' = "none"
    /\ sagIdx' = 0
    /\ exc' = FALSE
    /\ raised' = "none"
    /\ terminal' = "none"
    /\ reported' = NoPath
    /\ culprit' = 0
    /\ honest' = FALSE
    /\ iters' = 0
    /\ runFail' = FALSE
    /\ recFail' = FALSE
    /\ recRenamed' = {}
    /\ postCrash' = "none"
    /\ crashPd' = <<>>
    /\ resp' = "none"
    /\ skipped' = {}
    /\ answer' = "none"
    /\ UNCHANGED <<fsVars, program_disabled, rn, recVars, lastRestored, fails,
                   crashes, actLog>>

\* The units without the prefix, in discovery order (lines 251-259).
ActiveUnits == {u \in Units : ~_is_disabled_name(<<u, disk[u]>>)}

RECURSIVE SeqOfSet(_, _)
SeqOfSet(S, n) ==
    IF n = 0 THEN <<>>
    ELSE IF n \in S THEN Append(SeqOfSet(S, n - 1), n) ELSE SeqOfSet(S, n - 1)

BuildCandidates == SeqOfSet(ActiveUnits, Cardinality(Units))

\* run_bisection up to the loop: the settings backup (which binds src_ini
\* unless os.makedirs raises first), discovery, and the candidate list.
Discover ==
    /\ pc = "start"
    /\ \E bound \in BOOLEAN : src_ini' = bound
    /\ candidates' = BuildCandidates
    /\ original_disabled_on_disk' = Units \ ActiveUnits
    /\ IF BuildCandidates = <<>>
       THEN /\ pc' = "idle"
            /\ terminal' = "NoCandidates"
            /\ UNCHANGED <<current, culprit, honest>>
       ELSE /\ pc' = "loop"
            /\ current' = BuildCandidates
            /\ culprit' \in ActiveUnits
            /\ honest' = TRUE
            /\ UNCHANGED terminal
    /\ UNCHANGED <<fsVars, globVars, call, rn, phase, sagIdx, exc, recVars,
                   raised, reported, lastRestored, iters, runFail, recFail,
                   recRenamed, crashPd, postCrash, askVars, actLog, cntVars>>

\* The head of the while loop (lines 305-314).
LoopTop ==
    /\ pc = "loop"
    /\ IF Len(current) > 1
       THEN IF STOP_EVENT
            THEN /\ pc' = "report"
                 /\ terminal' = "Cancelled"
                 /\ UNCHANGED <<phase, sagIdx, skipped>>
            ELSE /\ pc' = "sag"
                 /\ phase' = "first"
                 /\ sagIdx' = 1
                 /\ skipped' = {}
                 /\ UNCHANGED terminal
       ELSE /\ pc' = "report"
            /\ UNCHANGED <<terminal, phase, sagIdx, skipped>>
    /\ UNCHANGED <<fsVars, globVars, call, rn, src_ini, candidates,
                   original_disabled_on_disk, current, exc, recVars,
                   raised, reported, lastRestored, envVars, resp, actLog, cntVars>>
    /\ answer' = "none"

\* -------------------------------------------------------- set_active_group
\* The test made with the original path where the list holds disabled paths.
RecordedByOrig(orig) ==
    orig \in Range(program_disabled) /\ Exists(_disabled_name_for(orig))

\* ensure_enabled_if_recorded's test (lines 278-283)
RecordedAndDisabled(orig) ==
    LET d == _disabled_name_for(orig)
    IN  d \in Range(program_disabled) /\ Exists(d) /\ _is_disabled_name(d)

\* Whether set_active_group renames the folder of candidate u: a member of the
\* group is re-enabled when recorded, any other candidate is disabled when its
\* original path exists (lines 296-300, 267, 279-283).
NeedsRename(u) ==
    IF u \in Range(Group)
    THEN RecordedAndDisabled(OrigPath(u))
    ELSE Exists(OrigPath(u))

SagPending == {i \in sagIdx..Len(candidates) : NeedsRename(candidates[i])}

\* One turn of the for loop of set_active_group: the candidates that need no
\* rename are passed over, the next one that does enters _rename_with_retry;
\* when none is left the call returns, to the prompt (line 337) after
\* set_active_group(first), to the head of the loop after set_active_group(second)
\* with current = second (lines 353-354).
SetActiveGroup ==
    /\ pc = "sag"
    /\ IF SagPending = {}
       THEN /\ IF phase = "first"
               THEN pc' = "ask" /\ UNCHANGED current
               ELSE pc' = "loop" /\ current' = Second
            /\ UNCHANGED <<rn, sagIdx, resp>>
       ELSE LET i == CHOOSE j \in SagPending : \A k \in SagPending : j <= k
                orig == OrigPath(candidates[i])
            IN  /\ sagIdx' = i
                /\ pc' = "rename"
                /\ rn' = IF candidates[i] \in Range(Group)
                         THEN [src |-> _disabled_name_for(orig), dst |-> orig, ctx |-> "en"]
                         ELSE [src |-> orig, dst |-> _disabled_name_for(orig), ctx |-> "dis"]
                /\ resp' = "none"
                /\ UNCHANGED current
    /\ UNCHANGED <<fsVars, globVars, call, src_ini, candidates,
                   original_disabled_on_disk, phase, exc, recVars, outVars,
                   envVars, skipped, actLog, cntVars>>
    /\ answer' = "none"

\* ------------------------------------------------------ _rename_with_retry
\* An exception leaves _rename_with_retry.  Raised under set_active_group it
\* unwinds to the finally clause of run_bisection; raised under
\* recover_from_state it ends the call (the finally clause itself, or the
\* on-demand recovery) and the state file is not removed.
RaiseFromRename(kind) ==
    /\ rn' = NoRename
    /\ IF rn.ctx \in {"dis", "en"}
       THEN /\ pc' = "finally"
            /\ exc' = TRUE
            /\ terminal' = kind
            /\ UNCHANGED <<raised, postCrash>>
       ELSE /\ pc' = "idle"
            /\ raised' = "RuntimeError"
            /\ exc' = FALSE
            /\ postCrash' = IF postCrash = "recovering" THEN "recovered" ELSE postCrash
            /\ UNCHANGED terminal

\* _rename_with_retry returns ok to its caller: ensure_disabled records the
\* path when the rename was done (line 270), ensure_enabled_if_recorded goes on
\* to its test of line 286, recover_from_state counts the entry (line 215).
ReturnFromRename(ok) ==
    /\ rn' = IF rn.ctx = "rec" THEN NoRename ELSE rn
    /\ CASE rn.ctx = "dis" ->
              /\ IF ok THEN pc' = "ed_append" /\ UNCHANGED sagIdx
                       ELSE pc' = "sag" /\ sagIdx' = sagIdx + 1
              /\ UNCHANGED <<recIdx, restored>>
         [] rn.ctx = "en" ->
              /\ pc' = "ee_remove"
              /\ UNCHANGED <<sagIdx, recIdx, restored>>
         [] OTHER ->
              /\ pc' = "rec"
              /\ restored' = restored + 1
              /\ recIdx' = recIdx + 1
              /\ UNCHANGED sagIdx

\* A _rename_with_retry that does not look at the event.
StopIgnored == FALSE

\* The test of line 96.
StopRequested == STOP_EVENT

\* The head of the while loop of _rename_with_retry: the stop check and one
\* os.rename, which succeeds or fails (lines 95-101).
RenameAttempt ==
    /\ pc = "rename"
    /\ IF StopRequested
       THEN /\ RaiseFromRename("StopRaised")
            /\ UNCHANGED <<disk, sagIdx, recIdx, restored, fails, runFail,
                           recFail, recRenamed>>
       ELSE \/ /\ Exists(rn.src)
               /\ disk' = [disk EXCEPT ![rn.src[1]] = rn.dst[2]]
               /\ recRenamed' = IF rn.ctx = "rec" THEN recRenamed \cup {rn.src[1]}
                                                 ELSE recRenamed
               /\ ReturnFromRename(TRUE)
               /\ UNCHANGED <<exc, raised, terminal, postCrash, fails, runFail, recFail>>
            \/ /\ fails < MaxFail
               /\ fails' = fails + 1
               /\ pc' = "rename_ask"
               /\ runFail' = (runFail \/ rn.ctx # "rec")
               /\ recFail' = (recFail \/ rn.ctx = "rec")
               /\ UNCHANGED <<disk, rn, sagIdx, recIdx, restored, exc, raised,
                              terminal, postCrash, recRenamed>>
    /\ UNCHANGED <<stateFile, tmpFile, globVars, call, src_ini, candidates,
                   original_disabled_on_disk, current, phase, recData,
                   reported, lastRestored, culprit, honest, iters, crashPd,
                   askVars, actLog, runs, crashes>>

\* What the operator can type at the rename-failure prompt, stripped and
\* lower-cased (line 104): "" is the empty answer, "x" any other text.
RenameResponses == {"r", "s", "a", "", "x"}

\* A skip that reports the rename as done.
SkipReturnsTrue == TRUE

\* What _rename_with_retry returns on the answer "s" (line 113).
SkipReturns == FALSE

\* The except branch of _rename_with_retry after the prompt (lines 104-118).
RenameAsk ==
    /\ pc = "rename_ask"
    /\ \E r \in RenameResponses :
         /\ resp' = r
         /\ CASE r = "s" ->
                   /\ ReturnFromRename(SkipReturns)
                   /\ skipped' = IF rn.ctx = "rec" THEN skipped
                                  ELSE skipped \cup {rn.src[1]}
                   /\ UNCHANGED <<exc, raised, terminal, postCrash>>
              [] r = "a" ->
                   /\ RaiseFromRename("Aborted")
                   /\ UNCHANGED <<sagIdx, recIdx, restored, skipped>>
              [] OTHER ->
                   /\ pc' = "rename"
                   /\ UNCHANGED <<rn, sagIdx, recIdx, restored, exc, raised,
                                  terminal, postCrash, skipped>>
    /\ UNCHANGED <<fsVars, globVars, call, src_ini, candidates,
                   original_disabled_on_disk, current, phase, recData,
                   reported, lastRestored, culprit, honest, iters, runFail,
                   recFail, recRenamed, crashPd, answer, actLog, cntVars>>

\* ---------------------------------------------------------- ensure_disabled
\* program_disabled.append(disabled) (line 271)
EnsureDisabledAppend ==
    /\ pc = "ed_append"
    /\ program_disabled' = Append(program_disabled, rn.dst)
    /\ IF STATE_FILE
       THEN pc' = "ed_save" /\ UNCHANGED sagIdx
       ELSE pc' = "sag" /\ sagIdx' = sagIdx + 1
    /\ UNCHANGED <<fsVars, STOP_EVENT, call, rn, src_ini, candidates,
                   original_disabled_on_disk, current, phase, exc, recVars,
                   outVars, envVars, askVars, actLog, cntVars>>

\* _save_state up to the opening of the temporary file (lines 141-156): an
\* empty list removes the state file instead.
SaveStateWrite ==
    /\ pc = "ed_save"
    /\ IF program_disabled = <<>>
       THEN /\ stateFile' = NoFile
            /\ pc' = "sag"
            /\ sagIdx' = sagIdx + 1
            /\ UNCHANGED tmpFile
       ELSE /\ tmpFile' = Truncated
            /\ pc' = "ed_dump"
            /\ UNCHANGED <<stateFile, sagIdx>>
    /\ UNCHANGED <<disk, globVars, call, rn, src_ini, candidates,
                   original_disabled_on_disk, current, phase, exc, recVars,
                   outVars, envVars, askVars, actLog, cntVars>>

\* json.dump(data, f) and the end of the with block (lines 154, 157): the
\* temporary file holds the whole list.
SaveStateDump ==
    /\ pc = "ed_dump"
    /\ tmpFile' = FileOf(program_disabled)
    /\ pc' = "ed_replace"
    /\ UNCHANGED <<disk, stateFile, globVars, call, rn, runVars, recVars,
                   outVars, envVars, askVars, actLog, cntVars>>

\* os.replace(tmp, STATE_FILE) (line 158)
SaveStateReplace ==
    /\ pc = "ed_replace"
    /\ stateFile' = tmpFile
    /\ tmpFile' = NoFile
    /\ pc' = "sag"
    /\ sagIdx' = sagIdx + 1
    /\ UNCHANGED <<disk, globVars, call, rn, src_ini, candidates,
                   original_disabled_on_disk, current, phase, exc, recVars,
                   outVars, envVars, askVars, actLog, cntVars>>

\* ----------------------------------------------- ensure_enabled_if_recorded
\* The list after lines 286-287: d is removed when it no longer exists.
Unrecord(pd, d) ==
    IF ~Exists(d) /\ d \in Range(pd) THEN RemoveFirst(pd, d) ELSE pd

\* Lines 286-287; the state file is not written here.
EnsureEnabledRemove ==
    /\ pc = "ee_remove"
    /\ program_disabled' = Unrecord(program_disabled, rn.src)
    /\ pc' = "sag"
    /\ sagIdx' = sagIdx + 1
    /\ UNCHANGED <<fsVars, STOP_EVENT, call, rn, src_ini, candidates,
                   original_disabled_on_disk, current, phase, exc, recVars,
                   outVars, envVars, askVars, actLog, cntVars>>

\* ------------------------------------------------------------- the prompt
\* What the oracle can answer, stripped and lower-cased (lines 337-343).
AskResponses == {"y", "n", "a", "", "yes"}

\* A narrowing that keeps the other half.
NarrowWrongHalf == Second

\* current after the answer "y" (line 349)
NarrowOnYes == First

\* A test that takes every answer starting with "y" for yes.
IsYesPrefix(r) == r \in {"y", "yes"}

\* resp == "y" (line 347)
IsYes(r) == r = "y"

\* resp == "a" (line 344)
IsAbort(r) == r = "a"

\* The fault-reproduction prompt and the branches on its answer (lines 337-354).
Ask ==
    /\ pc = "ask"
    /\ \E r \in AskResponses :
         /\ answer' = r
         /\ iters' = iters + 1
         /\ honest' = (honest /\ r \in {"y", "n"}
                              /\ ((r = "y") <=> (culprit \in Range(First))))
         /\ CASE IsAbort(r) ->
                   /\ pc' = "finally"
                   /\ exc' = TRUE
                   /\ terminal' = "Aborted"
                   /\ UNCHANGED <<current, phase, sagIdx, skipped>>
              [] IsYes(r) ->
                   /\ pc' = "loop"
                   /\ current' = NarrowOnYes
                   /\ UNCHANGED <<exc, terminal, phase, sagIdx, skipped>>
              [] OTHER ->
                   /\ pc' = "sag"
                   /\ phase' = "second"
                   /\ sagIdx' = 1
                   /\ skipped' = {}
                   /\ UNCHANGED <<exc, terminal, current>>
    /\ UNCHANGED <<fsVars, globVars, call, rn, src_ini, candidates,
                   original_disabled_on_disk, recVars, raised, reported,
                   lastRestored, culprit, runFail, recFail, recRenamed,
                   crashPd, postCrash, resp, actLog, cntVars>>

\* ------------------------------------------------------------- the result
\* A result that is always the original path.
OrigOnly(c) == OrigPath(c)

\* The on-disk path of the last candidate (lines 359-365).
ResolveFinal(c) ==
    IF Exists(OrigPath(c)) THEN OrigPath(c)
    ELSE IF Exists(_disabled_name_for(OrigPath(c))) THEN _disabled_name_for(OrigPath(c))
    ELSE OrigPath(c)

\* After the loop (lines 356-375).
Report ==
    /\ pc = "report"
    /\ IF Len(current) = 1
       THEN /\ reported' = ResolveFinal(current[1])
            /\ terminal' = "Found"
       ELSE UNCHANGED <<reported, terminal>>
    /\ pc' = "finally"
    /\ UNCHANGED <<fsVars, globVars, call, rn, runVars, recVars, raised,
                   lastRestored, envVars, askVars, actLog, cntVars>>

\* A finally clause that recovers whether or not the event is set.
AutoRecoverAlways == STATE_FILE

\* The condition of the finally clause (line 381).
AutoRecover == STATE_FILE /\ ~STOP_EVENT

\* The finally clause (lines 377-383).  Evaluating the unbound src_ini raises
\* UnboundLocalError, a NameError, before recover_from_state is entered.
Finally ==
    /\ pc = "finally"
    /\ IF AutoRecover
       THEN IF src_ini
            THEN /\ pc' = "rec"
                 /\ recData' = _load_state(stateFile)
                 /\ recIdx' = 1
                 /\ restored' = 0
                 /\ recFail' = FALSE
                 /\ recRenamed' = {}
                 /\ UNCHANGED <<raised, exc>>
            ELSE /\ pc' = "idle"
                 /\ raised' = "NameError"
                 /\ exc' = FALSE
                 /\ UNCHANGED <<recVars, recFail, recRenamed>>
       ELSE /\ pc' = "idle"
            /\ raised' = IF exc THEN "RuntimeError" ELSE "none"
            /\ exc' = FALSE
            /\ UNCHANGED <<recVars, recFail, recRenamed>>
    /\ UNCHANGED <<fsVars, globVars, call, rn, src_ini, candidates,
                   original_disabled_on_disk, current, phase, sagIdx,
                   terminal, reported, lastRestored, culprit, honest, iters,
                   runFail, crashPd, postCrash, resp, skipped, actLog, cntVars>>
    /\ answer' = "none"

\* ------------------------------------------------------ recover_from_state
\* The entries of data the loop still renames (line 213).
RecPending ==
    {i \in recIdx..Len(recData) : Exists(recData[i]) /\ _is_disabled_name(recData[i])}

\* A recovery that leaves the state file in place.
Kept(f) == f

\* The state file after lines 217-218.
Removed(f) == NoFile

\* One turn of the for loop of recover_from_state (lines 212-215): entries that
\* do not qualify are passed over and the next one that does enters
\* enable_folder; when none is left the state file is removed and the count
\* returned (lines 217-219).  Under the finally clause the exception in flight
\* then goes on to the caller of run_bisection.
Recover ==
    /\ pc = "rec"
    /\ IF RecPending = {}
       THEN /\ stateFile' = Removed(stateFile)
            /\ lastRestored' = restored
            /\ pc' = "idle"
            /\ raised' = IF call = "run" /\ exc THEN "RuntimeError" ELSE "none"
            /\ exc' = FALSE
            /\ postCrash' = IF postCrash = "recovering" THEN "recovered" ELSE postCrash
            /\ UNCHANGED <<rn, recIdx, resp>>
       ELSE LET i == CHOOSE j \in RecPending : \A k \in RecPending : j <= k
            IN  /\ recIdx' = i
                /\ rn' = [src |-> recData[i], dst |-> EnabledNameFor(recData[i]),
                          ctx |-> "rec"]
                /\ pc' = "rename"
                /\ resp' = "none"
                /\ UNCHANGED <<stateFile, lastRestored, raised, exc, postCrash>>
    /\ UNCHANGED <<disk, tmpFile, globVars, call, src_ini, candidates,
                   original_disabled_on_disk, current, phase, sagIdx, recData,
                   restored, terminal, reported, culprit, honest, iters,
                   runFail, recFail, recRenamed, crashPd, skipped, answer, actLog,
                   cntVars>>

\* function_runner.recover_state: the recovery on demand, in the process as it
\* is (STOP_EVENT keeps the event of the last run).
StartRecover ==
    /\ pc = "idle"
    /\ call' = "recover"
    /\ pc' = "rec"
    /\ recData' = _load_state(stateFile)
    /\ recIdx' = 1
    /\ restored' = 0
    /\ raised' = "none"
    /\ recFail' = FALSE
    /\ recRenamed' = {}
    /\ postCrash' = IF postCrash = "crashed" THEN "recovering" ELSE "none"
    /\ resp' = "none"
    /\ skipped' = {}
    /\ answer' = "none"
    /\ UNCHANGED <<fsVars, globVars, rn, runVars, terminal, reported,
                   lastRestored, culprit, honest, iters, runFail, crashPd,
                   actLog, cntVars>>

\* main with the command "recover" (lines 406-409), in a process just started:
\* recover_from_state is called with one argument where it takes two (line
\* 173), so the call raises TypeError before its body is entered and line 408
\* prints nothing.
MainRecover ==
    /\ pc = "idle"
    /\ call = "none"
    /\ call' = "main_recover"
    /\ raised' = "TypeError"
    /\ UNCHANGED <<fsVars, globVars, pc, rn, runVars, recVars, terminal,
                   reported, lastRestored, envVars, askVars, actLog, cntVars>>

\* ------------------------------------------------------------ other actors
\* Another thread sets the event of the run in progress.
SetStop ==
    /\ call = "run"
    /\ pc # "idle"
    /\ ~STOP_EVENT
    /\ STOP_EVENT' = TRUE
    /\ UNCHANGED <<fsVars, program_disabled, call, pc, rn, runVars, recVars,
                   outVars, envVars, askVars, actLog, cntVars>>

\* The process is gone: what was in memory is lost, the files stay.
ProcessGone ==
    /\ program_disabled' = <<>>
    /\ STOP_EVENT' = FALSE
    /\ call' = "none"
    /\ pc' = "idle"
    /\ rn' = NoRename
    /\ src_ini' = FALSE
    /\ candidates' = <<>>
    /\ original_disabled_on_disk' = {}
    /\ current' = <<>>
    /\ phase' = "none"
    /\ sagIdx' = 0
    /\ exc' = FALSE
    /\ recData' = <<>>
    /\ recIdx' = 0
    /\ restored' = 0
    /\ raised' = "none"
    /\ terminal' = "none"
    /\ reported' = NoPath
    /\ lastRestored' = 0
    /\ culprit' = 0
    /\ honest' = FALSE
    /\ iters' = 0
    /\ runFail' = FALSE
    /\ recFail' = FALSE
    /\ recRenamed' = {}
    /\ resp' = "none"
    /\ skipped' = {}
    /\ answer' = "none"
    /\ UNCHANGED <<fsVars, fails, runs, actLog>>

\* The process is killed in the middle of a call; a new one is started.
Crash ==
    /\ pc # "idle"
    /\ crashes < MaxCrash
    /\ crashes' = crashes + 1
    /\ crashPd' = program_disabled
    /\ postCrash' = IF call = "run" THEN "crashed" ELSE "none"
    /\ ProcessGone

\* The process exits between two calls and a new one is started (every command
\* line invocation of main is one).
Restart ==
    /\ pc = "idle"
    /\ program_disabled # <<>> \/ STOP_EVENT \/ call # "none"
    /\ crashPd' = <<>>
    /\ postCrash' = "none"
    /\ ProcessGone
    /\ UNCHANGED crashes

\* -------------------------------------------------------------------- Spec
Next ==
    \/ StartRun
    \/ Discover
    \/ LoopTop
    \/ SetActiveGroup
    \/ RenameAttempt
    \/ RenameAsk
    \/ EnsureDisabledAppend
    \/ SaveStateWrite
    \/ SaveStateDump
    \/ SaveStateReplace
    \/ EnsureEnabledRemove
    \/ Ask
    \/ Report
    \/ Finally
    \/ Recover
    \/ StartRecover
    \/ MainRecover
    \/ SetStop
    \/ Crash
    \/ Restart

Spec == Init /\ [][Next]_vars

\* One run of run_bisection in which no os.rename fails, the event is never set
\* and the process is not killed: the setting of the convergence property, with
\* more folders than Spec has.  The program keeps running and the oracle
\* answers every prompt (weak fairness of the run's steps).
InitConv ==
    /\ disk \in UNION {[1..n -> {0, 1}] : n \in 1..MaxConvUnits}
    /\ fails = MaxFail
    /\ runs = MaxRuns - 1
    /\ actLog = <<>>
    /\ InitProcess

NextConv ==
    \/ StartRun
    \/ Discover
    \/ LoopTop
    \/ SetActiveGroup
    \/ RenameAttempt
    \/ EnsureDisabledAppend
    \/ SaveStateWrite
    \/ SaveStateDump
    \/ SaveStateReplace
    \/ EnsureEnabledRemove
    \/ Ask
    \/ Report
    \/ Finally
    \/ Recover

SpecConv == InitConv /\ [][NextConv]_vars /\ WF_vars(NextConv)

\* ---------------------------------------- disable_folder and enable_folder
\* The two functions applied one after the other to a folder of the disk, each
\* to the path the call before returned, with every os.rename succeeding.
\* actLog[1] holds the first path U and the disk at the start; every call adds
\* what it returned, the disk it left and whether it renamed.
LogEntry(op, ret, d, renamed) ==
    [op |-> op, ret |-> ret, disk |-> d, renamed |-> renamed]

PathInHand == actLog[Len(actLog)].ret

InitActivator ==
    /\ disk \in UNION {[1..n -> 0..MaxPrefix] : n \in 1..MaxUnits}
    /\ \E u \in DOMAIN disk :
         actLog = <<LogEntry("init", <<u, disk[u]>>, disk, FALSE)>>
    /\ fails = 0
    /\ runs = 0
    /\ InitProcess

\* disk after os.rename(src, dst)
Renamed(src, dst) == [disk EXCEPT ![src[1]] = dst[2]]

\* disable_folder(path) (lines 53-67), _rename_with_retry returning True.
DisableFolder ==
    /\ actLog # <<>>
    /\ Len(actLog) <= MaxCalls
    /\ LET path == PathInHand
           new_path == _disabled_name_for(path)
       IN  IF _is_disabled_name(path)
           THEN /\ actLog' = Append(actLog, LogEntry("disable", path, disk, FALSE))
                /\ UNCHANGED disk
           ELSE /\ Exists(path)
                /\ disk' = Renamed(path, new_path)
                /\ actLog' = Append(actLog, LogEntry("disable", new_path,
                                                     Renamed(path, new_path), TRUE))
    /\ UNCHANGED <<stateFile, tmpFile, globVars, call, pc, rn, runVars, recVars,
                   outVars, envVars, askVars, cntVars>>

\* enable_folder(disabled_path) (lines 70-84), _rename_with_retry returning True.
EnableFolder ==
    /\ actLog # <<>>
    /\ Len(actLog) <= MaxCalls
    /\ LET disabled_path == PathInHand
           new_path == EnabledNameFor(disabled_path)
       IN  IF ~_is_disabled_name(disabled_path)
           THEN /\ actLog' = Append(actLog, LogEntry("enable", disabled_path, disk, FALSE))
                /\ UNCHANGED disk
           ELSE /\ Exists(disabled_path)
                /\ disk' = Renamed(disabled_path, new_path)
                /\ actLog' = Append(actLog, LogEntry("enable", new_path,
                                                     Renamed(disabled_path, new_path), TRUE))
    /\ UNCHANGED <<stateFile, tmpFile, globVars, call, pc, rn, runVars, recVars,
                   outVars, envVars, askVars, cntVars>>

NextActivator ==
    \/ DisableFolder
    \/ EnableFolder

SpecActivator == InitActivator /\ [][NextActivator]_vars

\* ================================================================== claims
InRun == call = "run" /\ pc \notin {"idle", "start"}

RunEnded == call = "run" /\ pc = "idle"

\* The run is past its loop: in the finally clause or back at the caller.
PastLoop ==
    /\ call = "run"
    /\ \/ pc \in {"finally", "rec", "idle"}
       \/ pc \in {"rename", "rename_ask"} /\ rn.ctx = "rec"

\* The oracle has so far answered "y" exactly when the culprit was in first, no
\* rename of an activation step failed and the event is not set.
HonestRun ==
    /\ call = "run"
    /\ pc # "start"
    /\ terminal # "NoCandidates"
    /\ honest
    /\ ~runFail
    /\ ~STOP_EVENT

\* What C1 says of every state of such a run: the culprit is still a
\* candidate, at most ceil(log2(N)) questions were asked, the candidates left
\* at the head of the loop fit the questions still allowed, and past the loop
\* the culprit is the sole candidate and the reported result.
C1_State ==
    HonestRun =>
        /\ culprit \in Range(current)
        /\ iters <= CeilLog2(Len(candidates))
        /\ pc = "loop" => Len(current) <= Pow2(CeilLog2(Len(candidates)) - iters)
        /\ PastLoop => /\ current = <<culprit>>
                       /\ terminal = "Found"
                       /\ reported[1] = culprit

\* C1 (convergence): for N >= 1 active candidates, with no rename failure and
\* no cancellation and an oracle that answers "y" exactly when the culprit is in
\* first, run_bisection ends with the culprit as the sole candidate after at
\* most ceil(log2(N)) questions (none when N = 1); and the run does end.
C1_Convergence ==
    /\ []C1_State
    /\ [](pc = "start" => <>(pc = "idle"))

\* A run over four or more candidates that needed every question it is allowed.
C1_Witness ==
    /\ HonestRun
    /\ RunEnded
    /\ Len(candidates) >= 4
    /\ iters = CeilLog2(Len(candidates))
    /\ iters >= 2
    /\ current = <<culprit>>
    /\ raised = "none"

\* Every candidate of the run is back under its original name.
AllCandidatesEnabled == \A c \in Range(candidates) : disk[c] = 0

\* C2 (automatic recovery on exit): when a run that entered the loop phase ends
\* with a Found result or a user abort, the event not set and no recovery
\* rename having failed, every candidate is back under its original name and
\* the state file is absent.
C2_RecoveryOnExit ==
    (RunEnded /\ terminal \in {"Found", "Aborted"} /\ ~STOP_EVENT /\ ~recFail)
        => (AllCandidatesEnabled /\ ~stateFile.exists)

\* C2 for the runs whose settings backup bound src_ini: the part of C2 the
\* code keeps.
C2_WhenBackupRan ==
    (RunEnded /\ terminal \in {"Found", "Aborted"} /\ ~STOP_EVENT /\ ~recFail
        /\ src_ini)
        => (AllCandidatesEnabled /\ ~stateFile.exists)

UnitsOf(paths) == {q[1] : q \in Range(paths)}

\* C3 (crash-safety): the process was killed in the middle of a run whose
\* RunState held at least one path, and recover_from_state then ran on the
\* surviving state file with no rename failing: it renamed exactly the units
\* RunState held at the kill, and the state file is absent.
C3_CrashSafety ==
    (postCrash = "recovered" /\ raised = "none" /\ ~recFail /\ crashPd # <<>>)
        => (recRenamed = UnitsOf(crashPd) /\ ~stateFile.exists)

\* C4 (never losing track): at every point of a run, every candidate that is on
\* disk under its prefixed name is listed in the state file.
C4_NeverLosingTrack ==
    InRun => \A c \in Range(candidates) :
                 disk[c] >= 1 =>
                     (stateFile.exists /\ <<c, disk[c]>> \in Range(stateFile.data))

\* C5 (pre-excluded invariance): no step of a run, activation or automatic
\* recovery, renames a unit that carried the prefix when the run started, and
\* no such unit is a candidate.
C5_PreExcluded ==
    /\ [](InRun => original_disabled_on_disk \cap Range(candidates) = {})
    /\ [][(InRun /\ call' = "run")
            => \A u \in original_disabled_on_disk : disk'[u] = disk[u]]_vars

\* C6 (active-group invariant): at the fault-reproduction prompt of a run
\* without rename failures, the candidates under their original name are
\* exactly the members of first and every other candidate carries the prefix.
C6_ActiveGroup ==
    (call = "run" /\ pc = "ask" /\ ~runFail)
        => \A c \in Range(candidates) :
               /\ (disk[c] = 0) <=> (c \in Range(First))
               /\ c \notin Range(First) => disk[c] = 1

\* The second prompt or a later one, with a candidate eliminated earlier kept
\* disabled and a candidate of first that the run had disabled and re-enabled.
C6_Witness ==
    /\ call = "run" /\ pc = "ask" /\ ~runFail
    /\ iters >= 1
    /\ Len(current) < Len(candidates)
    /\ \E c \in Range(candidates) : c \notin Range(current) /\ disk[c] = 1
    /\ \E c \in Range(First) : <<c, 1>> \in Range(stateFile.data) /\ disk[c] = 0

\* C7 (cooperative cancellation): when the event is set at the check at the
\* head of the loop, the loop stops without raising, nothing is reported and
\* the run goes to its end with no rename and the state file as it was.
C7_Cancellation ==
    /\ [][(pc = "loop" /\ Len(current) > 1 /\ STOP_EVENT /\ call' = "run")
            => (pc' = "report" /\ terminal' = "Cancelled")]_vars
    /\ []((call = "run" /\ terminal = "Cancelled")
            => (pc \in {"report", "finally", "idle"} /\ reported = NoPath
                /\ raised = "none" /\ ~exc))
    /\ [][(call = "run" /\ terminal = "Cancelled" /\ pc # "idle" /\ call' = "run")
            => (disk' = disk /\ stateFile' = stateFile)]_vars

\* A cancelled run back at its caller with a unit still disabled and the state
\* file in place.
C7_Witness ==
    /\ RunEnded
    /\ terminal = "Cancelled"
    /\ stateFile.exists
    /\ \E c \in Range(candidates) : disk[c] = 1 /\ <<c, 1>> \in Range(stateFile.data)

\* The state file holds the in-memory list, or is absent when the list is empty.
FileMatchesMemory ==
    IF program_disabled = <<>> THEN ~stateFile.exists
    ELSE stateFile = FileOf(program_disabled)

\* C8 (persisted after every mutation): when ensure_disabled or
\* ensure_enabled_if_recorded gives control back to set_active_group after
\* its record or unrecord, the state file matches the in-memory list.
C8_PersistedAfterMutation ==
    [][(pc \in {"ed_append", "ed_save", "ed_replace", "ee_remove"} /\ pc' = "sag")
         => FileMatchesMemory']_vars

\* Every path in program_disabled exists on disk and carries the prefix.
RunStateOnDisk ==
    \A q \in Range(program_disabled) : Exists(q) /\ _is_disabled_name(q)

\* C9 (RunState invariant): at every prompt, and after a run and its automatic
\* recovery have finished, every path of program_disabled exists on disk and
\* carries the prefix.
C9_RunStateInvariant ==
    (\/ call = "run" /\ pc = "ask"
     \/ RunEnded /\ raised = "none" /\ terminal \in {"Found", "Aborted"}
                 /\ ~STOP_EVENT /\ ~recFail)
        => RunStateOnDisk

\* C10 (RunState empty at run start): whenever run_bisection is entered the
\* in-memory list is empty.
C10_EmptyAtStart == pc = "start" => program_disabled = <<>>

\* The step is the operator's answer at the rename-failure prompt.
Answered == pc = "rename_ask" /\ pc' # "rename_ask" /\ call' = call

\* C11 (rename-with-retry outcomes): a failed os.rename leads to the prompt and
\* raises nothing; the answer "r" leads back to an attempt of the same rename,
\* however many came before; "s" gives control back to the caller with nothing
\* renamed and nothing recorded; "a" raises the abort that unwinds the run (or
\* ends the recovery); and nothing is raised out of _rename_with_retry unless
\* the answer was "a" or the event is set.
C11_RenameOutcomes ==
    /\ [][(pc = "rename" /\ fails' = fails + 1)
            => (pc' = "rename_ask" /\ disk' = disk /\ rn' = rn
                /\ exc' = exc /\ raised' = raised)]_vars
    /\ [][(Answered /\ resp' = "r")
            => (pc' = "rename" /\ rn' = rn /\ disk' = disk)]_vars
    /\ [][(Answered /\ resp' = "s")
            => (/\ disk' = disk
                /\ Exists(rn.src)
                /\ program_disabled' = program_disabled
                /\ exc' = exc /\ raised' = raised
                /\ pc' = (CASE rn.ctx = "dis" -> "sag"
                             [] rn.ctx = "en" -> "ee_remove"
                             [] OTHER -> "rec"))]_vars
    /\ [][(Answered /\ resp' = "a")
            => (/\ disk' = disk
                /\ IF rn.ctx = "rec"
                   THEN pc' = "idle" /\ raised' = "RuntimeError"
                   ELSE pc' = "finally" /\ exc' /\ terminal' = "Aborted")]_vars
    /\ [][(pc \in {"rename", "rename_ask"} /\ call' = call
            /\ ((exc' /\ ~exc) \/ raised' # raised))
            => (resp' = "a" \/ STOP_EVENT)]_vars

\* A rename that failed, was retried on the answer "r" and then succeeded.
C11_Witness ==
    /\ pc = "ed_append"
    /\ resp = "r"
    /\ rn.ctx = "dis"
    /\ Exists(rn.dst)

\* C12 (re-prompt): after an empty or unrecognized answer at the rename-failure
\* prompt no os.rename is called, neither one that succeeds nor one that fails,
\* before the operator is asked again.
C12_Reprompt ==
    [][(pc = "rename" /\ resp \in {"", "x"})
         => (disk' = disk /\ fails' = fails)]_vars

\* C13 (stop check before every attempt): when the event is set at the head of
\* the loop of _rename_with_retry, on the first attempt or on a retry, no
\* os.rename is called, the disk stays as it is, the operator is not asked and
\* the abort is raised.
C13_StopBeforeRename ==
    [][(pc = "rename" /\ STOP_EVENT /\ call' = call)
         => (/\ disk' = disk
             /\ fails' = fails
             /\ IF rn.ctx = "rec"
                THEN pc' = "idle" /\ raised' = "RuntimeError"
                ELSE pc' = "finally" /\ exc' /\ terminal' = "StopRaised")]_vars

\* The event was set while the operator was at the prompt; the answer "r" then
\* met the stop check and the run is unwinding.
C13_Witness ==
    /\ call = "run"
    /\ pc = "finally"
    /\ terminal = "StopRaised"
    /\ resp = "r"
    /\ exc

\* What C14 says of the units skipped in the set_active_group call in hand: one
\* whose re-enable was skipped is recorded and on disk under its prefixed name,
\* one whose disable was skipped is not recorded and on disk under its
\* original name.
SkippedAsClaimed ==
    \A u \in skipped :
        IF u \in Range(Group)
        THEN <<u, 1>> \in Range(program_disabled) /\ disk[u] = 1
        ELSE <<u, 1>> \notin Range(program_disabled) /\ disk[u] = 0

\* At the prompt the candidates that were not skipped are enabled when in
\* first and disabled otherwise.
OthersAsUsual ==
    pc = "ask" =>
        \A c \in Range(candidates) \ skipped :
            IF c \in Range(First) THEN disk[c] = 0 ELSE disk[c] = 1

\* C14 (partial-failure tolerance): during set_active_group and at the prompt
\* that follows it, every skipped unit is as C14 says and every other
\* candidate is disabled or enabled as usual.
C14_PartialFailure ==
    (call = "run" /\ pc \in {"sag", "ask"}) => (SkippedAsClaimed /\ OthersAsUsual)

\* C14 for the first run of the behaviour, which starts with program_disabled
\* empty: the part of C14 the code keeps.
C14_FirstRun ==
    (call = "run" /\ pc \in {"sag", "ask"} /\ runs = 1)
        => (SkippedAsClaimed /\ OthersAsUsual)

\* C15 (count of restored units): the number recover_from_state returns is the
\* number of units it renamed back.
C15_CountsRestored ==
    [][(pc = "rec" /\ pc' = "idle" /\ call' = call)
         => lastRestored' = Cardinality(recRenamed')]_vars

\* C16 (recovery leaves no state file): whenever recover_from_state returns,
\* the state file is absent; and a recovery on demand that found no state file
\* returned 0, raised nothing and renamed nothing.
C16_RecoveryLeavesNoFile ==
    /\ [][(pc = "rec" /\ pc' = "idle" /\ call' = call) => ~stateFile'.exists]_vars
    /\ [][(pc = "idle" /\ pc' = "rec" /\ call' = "recover" /\ ~stateFile.exists)
            => recData' = <<>>]_vars
    /\ []((call = "recover" /\ pc = "idle" /\ raised = "none")
            => (/\ ~stateFile.exists
                /\ recData = <<>> => (lastRestored = 0 /\ recRenamed = {})))
    /\ []((call = "recover" /\ recData = <<>>) => (pc \in {"rec", "idle"} /\ raised = "none"))

\* A recovery on demand, after a run, that found no state file and returned 0
\* while a folder of the disk carries the prefix.
C16_Witness ==
    /\ call = "recover"
    /\ pc = "idle"
    /\ raised = "none"
    /\ recData = <<>>
    /\ lastRestored = 0
    /\ runs >= 1
    /\ ~stateFile.exists
    /\ \E u \in Units : disk[u] = 1

\* C17 (command line recover): after main has run the command "recover", no
\* exception was raised, the state file is absent and no path it named is
\* still on disk under its prefixed name.
C17_MainRecover ==
    (call = "main_recover" /\ pc = "idle")
        => (/\ raised = "none"
            /\ ~stateFile.exists
            /\ \A q \in Range(_load_state(stateFile)) :
                   ~(Exists(q) /\ _is_disabled_name(q)))

\* C18 (atomic persistence): the state file, when present, holds a list that
\* was written to its end; and when run_bisection is entered, before any record
\* step of the run, the state file is absent.
C18_AtomicPersistence ==
    /\ stateFile.exists => (stateFile.whole /\ stateFile.data # <<>>)
    /\ pc = "start" => ~stateFile.exists

\* The part of C18 the code keeps: the state file is never seen partly
\* written, and it only changes by being removed or by being replaced with the
\* whole in-memory list at the end of a record step.
C18_WholeSnapshots ==
    /\ [](stateFile.exists => (stateFile.whole /\ stateFile.data # <<>>))
    /\ [][stateFile' # stateFile
            => \/ stateFile' = NoFile
               \/ pc = "ed_replace" /\ stateFile' = FileOf(program_disabled)]_vars

\* The calls of actLog, by position: call i took actLog[i - 1].ret.
Calls == 2..Len(actLog)

\* A call on a path that already is as the call wants it renames nothing and
\* returns the path.
NoRenameWhenDone ==
    \A i \in Calls :
        LET arg == actLog[i - 1].ret
            done == IF actLog[i].op = "disable" THEN _is_disabled_name(arg)
                                                ELSE ~_is_disabled_name(arg)
        IN  done => (/\ ~actLog[i].renamed
                     /\ actLog[i].ret = arg
                     /\ actLog[i].disk = actLog[i - 1].disk)

\* Two calls in a row of the function op give what one call gave.
SameTwice(op) ==
    \A i \in Calls :
        (i + 1 \in Calls /\ actLog[i].op = op /\ actLog[i + 1].op = op)
            => (/\ actLog[i + 1].ret = actLog[i].ret
                /\ actLog[i + 1].disk = actLog[i].disk)

\* C19 (idempotence): disable_folder twice gives the path and the disk of
\* disable_folder once, enable_folder twice those of enable_folder once, and a
\* call on a path that already is as the call wants it renames nothing.
C19_Idempotence ==
    SameTwice("disable") /\ SameTwice("enable") /\ NoRenameWhenDone

\* The part of C19 the code keeps.
C19_DisableIdempotent == SameTwice("disable") /\ NoRenameWhenDone

\* Call i is disable_folder on a path without the prefix and call i + 1 is
\* enable_folder on what it returned.
DisableThenEnable(i) ==
    /\ i \in Calls
    /\ i + 1 \in Calls
    /\ ~_is_disabled_name(actLog[i - 1].ret)
    /\ actLog[i].op = "disable"
    /\ actLog[i + 1].op = "enable"

\* C20 (round trip): enable_folder(disable_folder(U)) for a path U without the
\* prefix returns U, with the disk as it was before the two calls; both calls
\* renamed.
C20_RoundTrip ==
    \A i \in Calls :
        DisableThenEnable(i)
            => (/\ actLog[i + 1].ret = actLog[i - 1].ret
                /\ actLog[i + 1].disk = actLog[i - 1].disk
                /\ actLog[i].renamed
                /\ actLog[i].ret # actLog[i - 1].ret
                /\ actLog[i + 1].renamed)

\* The round trip from the first path, next to a folder that carries the prefix.
C20_Witness ==
    /\ actLog # <<>>
    /\ DisableThenEnable(2)
    /\ actLog[3].ret = actLog[1].ret
    /\ disk = actLog[1].disk
    /\ \E u \in Units : disk[u] >= 1

\* The scenario of C21: four candidates A, B, C, D (units 1 to 4) and the
\* pre-excluded E (unit 5); the oracle answered "n" to the first split and
\* set_active_group(second) has returned.
AfterFirstNo ==
    /\ call = "run"
    /\ candidates = <<1, 2, 3, 4>>
    /\ original_disabled_on_disk = {5}
    /\ iters = 1
    /\ pc = "loop"
    /\ current = <<3, 4>>

\* C21 as stated: after the answer "n" A and B are enabled again, no unit is
\* newly disabled and C and D are active; E is as it was.
C21_AfterNo == AfterFirstNo => disk = <<0, 0, 0, 0, 1>>

\* C21 (concrete scenario), amended: after the answer "n" the engine has
\* disabled A and B and re-enabled C and D, which first = [A, B] had disabled;
\* RunState holds the disabled paths of A and B; E is as it was.
C21_AfterNoSecondActive ==
    AfterFirstNo => (/\ disk = <<1, 1, 0, 0, 1>>
                     /\ program_disabled = << <<1, 1>>, <<2, 1>> >>)

\* The scenario with second = [C, D] active.
C21_Witness ==
    /\ AfterFirstNo
    /\ disk = <<1, 1, 0, 0, 1>>
    /\ culprit = 3

\* C22 (split and narrowing): at the prompt first and second are the two
\* parts of current cut at len // 2, in order, the longer one being second; the
\* answer "y" makes current the first len // 2 elements; the answer "n" starts
\* set_active_group(second) with current untouched, and when that call returns
\* current is the rest and, no rename having failed, exactly its members are
\* enabled; a current of one candidate is never split.
C22_SplitAndNarrow ==
    /\ [](pc = "ask" => (/\ First \o Second = current
                         /\ Len(First) = Len(current) \div 2
                         /\ Len(Second) - Len(First) \in {0, 1}))
    /\ [](pc \in {"sag", "ask"} => Len(current) >= 2)
    /\ [][(pc = "ask" /\ answer' = "y")
            => (pc' = "loop" /\ current' = SubSeq(current, 1, Len(current) \div 2))]_vars
    /\ [][(pc = "ask" /\ answer' = "n")
            => (pc' = "sag" /\ phase' = "second" /\ current' = current)]_vars
    /\ [][(pc = "sag" /\ phase = "second" /\ pc' = "loop")
            => (/\ current' = SubSeq(current, Len(current) \div 2 + 1, Len(current))
                /\ ~runFail => \A c \in Range(candidates) :
                                   (disk[c] = 0) <=> (c \in Range(current')))]_vars

\* Five candidates, the answer "n": current is the last three.
C22_Witness ==
    /\ call = "run"
    /\ pc = "loop"
    /\ iters = 1
    /\ Len(candidates) = 5
    /\ current = SubSeq(candidates, 3, 5)

\* current is a non-empty run of consecutive elements of candidates.
IsSlice ==
    \E i \in 1..Len(candidates) : \E j \in i..Len(candidates) :
        current = SubSeq(candidates, i, j)

\* C23 (candidate set): from the loop on, current is a non-empty contiguous
\* slice of candidates; every narrowing makes it strictly shorter; the loop is
\* left with one candidate, or with more than one when the event was seen set
\* or an abort was raised, and never with none.
C23_CandidateSet ==
    /\ []((call = "run" /\ pc # "start" /\ terminal # "NoCandidates")
            => (/\ IsSlice
                /\ pc = "loop" => Len(current) + iters <= Len(candidates)
                /\ pc = "report" => (\/ Len(current) = 1
                                     \/ terminal = "Cancelled" /\ STOP_EVENT)
                /\ terminal = "Found" => Len(current) = 1
                /\ terminal \in {"Cancelled", "Aborted", "StopRaised"}
                       => Len(current) > 1))
    /\ [][(call = "run" /\ pc \in {"ask", "sag"} /\ call' = call /\ current' # current)
            => (Len(current') < Len(current) /\ Len(current') >= 1)]_vars

\* A run over three candidates cancelled after one iteration, with two left.
C23_Witness ==
    /\ RunEnded
    /\ terminal = "Cancelled"
    /\ Len(candidates) = 3
    /\ Len(current) = 2
    /\ iters = 1

\* C24 (Found result): when the result has been reported and the finally
\* clause is still to run, the reported path is the path the sole candidate has
\* on disk, it exists, and the recovery has renamed nothing yet; nothing is
\* reported in a run that is not Found.
C24_FoundResult ==
    /\ (call = "run" /\ pc = "finally" /\ terminal = "Found")
          => (/\ Len(current) = 1
              /\ reported = <<current[1], disk[current[1]]>>
              /\ Exists(reported)
              /\ recRenamed = {})
    /\ (call = "run" /\ reported # NoPath) => terminal = "Found"

\* A Found result under the prefixed name: the re-enable of the last candidate
\* failed and was skipped.
C24_Witness ==
    /\ call = "run"
    /\ pc = "finally"
    /\ terminal = "Found"
    /\ reported[2] = 1

\* C25 (exact answers): the answers "n", "" and "yes" start
\* set_active_group(second) with nothing raised and no other prompt, and when
\* that call returns current is second; only "y" narrows to first and only "a"
\* aborts.
C25_ExactAnswers ==
    /\ [][(pc = "ask" /\ answer' \in {"n", "", "yes"})
            => (/\ pc' = "sag"
                /\ phase' = "second"
                /\ sagIdx' = 1
                /\ current' = current
                /\ exc' = exc
                /\ terminal' = terminal)]_vars
    /\ [][(pc = "ask" /\ answer' = "y") => (pc' = "loop" /\ current' = First)]_vars
    /\ [][(pc = "ask" /\ answer' = "a")
            => (pc' = "finally" /\ exc' /\ terminal' = "Aborted")]_vars
    /\ [][(pc = "sag" /\ phase = "second" /\ call' = call /\ pc' \notin {"sag", "rename"})
            => (pc' = "loop" /\ current' = Second)]_vars

\* The answer "yes" has just been given and second is being activated.
C25_Witness ==
    /\ call = "run"
    /\ pc = "sag"
    /\ phase = "second"
    /\ answer = "yes"
    /\ Len(current) >= 3

\* C26 (cancellation at any moment): a run that reported a Found result, whose
\* backup block bound src_ini and whose recovery renames did not fail, has
\* every candidate back under its original name and no state file.
C26_FoundAlwaysRecovers ==
    (RunEnded /\ terminal = "Found" /\ src_ini /\ ~recFail)
        => (AllCandidatesEnabled /\ ~stateFile.exists)

\* No path of data is on disk under its prefixed name.
NoneLeftDisabled(data) ==
    \A q \in Range(data) : ~(Exists(q) /\ _is_disabled_name(q))

\* C27 (recovery on demand after a cancelled run): a recovery on demand in the
\* process of a cancelled run, with no rename failing, ends without an
\* exception, with every path of the state file re-enabled and the state
\* file absent.
C27_RecoverAfterCancel ==
    (call = "recover" /\ pc = "idle" /\ terminal = "Cancelled" /\ ~recFail)
        => (raised = "none" /\ NoneLeftDisabled(recData) /\ ~stateFile.exists)

\* C28 (record discarded only when restored): when recover_from_state
\* returns, no path the state file listed is on disk under its prefixed name.
C28_DiscardedWhenRestored ==
    [][(pc = "rec" /\ pc' = "idle" /\ call' = call /\ raised' = "none")
         => \A q \in Range(recData) :
                ~(disk'[q[1]] = q[2] /\ _is_disabled_name(q))]_vars

\* C29 (backup failure tolerated): a run whose backup block raised before it
\* bound src_ini, ended Found or by a user abort with the event not set and no
\* recovery rename failing, raises no error of its own in the finally clause
\* and has recovered.
C29_BackupFailureTolerated ==
    (RunEnded /\ ~src_ini /\ terminal \in {"Found", "Aborted"} /\ ~STOP_EVENT
        /\ ~recFail)
        => (raised # "NameError" /\ AllCandidatesEnabled /\ ~stateFile.exists)

====
